---- MODULE Spec2Model ----
(***************************************************************************)
(* Spade Edge: the ingest handler (requests/request_handler.go), the       *)
(* EdgeLoggers fan-out with its shutdown protocol, the kinesis stream sink *)
(* (loggers, kinesisLogger) and the s3 object sink (loggers/s3.go).        *)
(*                                                                         *)
(* One handler goroutine per HTTP request, one submission goroutine in the *)
(* kinesisLogger, one goroutine running EdgeLoggers.Close on SIGINT.       *)
(***************************************************************************)
EXTENDS Integers, Sequences, FiniteSets, TLC

\* ---------------------------------------------------------------- bounds
\* number of concurrently served HTTP requests
NumReq == 2
\* largest number of elements of the JSON array of a split request
MaxElems == 3
\* largest number of elements of a split request whose elements are drawn
\* from all four kinds of element
MaxSplitElems == 2
\* capacity of the batch producer's buffer (10000 in NewKinesisLogger)
BufferSize == 1
\* number of times Close is invoked on the EdgeLoggers
MaxCloseCalls == 2
\* maxBytesPerRequest (500 * 1024 in the handler), scaled to the lengths of
\* the array elements of a run here
maxBytesPerRequest == 4

Reqs == 1..NumReq
MaxEvents == IF MaxElems > NumReq THEN MaxElems ELSE NumReq
Events == 1..MaxEvents

\* ------------------------------------------------------- program constants
StatusOK == 200
StatusNoContent == 204
StatusBadRequest == 400
StatusNotFound == 404
StatusRequestEntityTooLarge == 413
StatusInternalServerError == 500
StatusBadGateway == 502
Is2xx(s) == s >= 200 /\ s < 300

VARIABLES
    req,            \* per request: the handler goroutine and its RequestContext
    ev,             \* per event built: what each sink's Log did with it
    eventCount,     \* SpadeHandler.eventCount
    handleLargeEvents, \* SpadeHandler.handleLargeEvents
    elClosed,       \* EdgeLoggers.closed has been closed
    elWg,           \* EdgeLoggers.WaitGroup counter
    closer,         \* the goroutine that runs EdgeLoggers.Close
    s3Lines,        \* lines handed to the object sink's uploadLogger, in order
    s3CloseCalls,   \* number of S3EventLogger.Close calls
    kl,             \* kinesisLogger: channel, errors, waitGroup, goroutine
    prod,           \* the batch producer behind the kinesisLogger
    fallbackLines,  \* lines written to the fallback logger built in main
    s3Audit,        \* the audit logger built in main: its lines, its Close calls
    proc,           \* the process: "running", "crashed" (panic), "exited"
    load            \* the requests the server is given (fixed by Init)

vars == <<req, ev, eventCount, handleLargeEvents, elClosed, elWg, closer,
          s3Lines, s3CloseCalls, kl, prod, fallbackLines, s3Audit, proc, load>>

\* ------------------------------------------------------------ the inputs
PathRoot == <<"/">>
PathTrack == <<"/", "t", "r", "a", "c", "k">>
PathTrackSlash == <<"/", "t", "r", "a", "c", "k", "/">>
PathV1 == <<"/", "v", "1", "/", "x">>
PathHealthcheck ==
    <<"/", "h", "e", "a", "l", "t", "h", "c", "h", "e", "c", "k">>
PathXarth == <<"/", "x", "a", "r", "t", "h">>
PathRobotsTxt == <<"/", "r", "o", "b", "o", "t", "s", ".", "t", "x", "t">>
PathCrossDomain ==
    <<"/", "c", "r", "o", "s", "s", "d", "o", "m", "a", "i", "n", ".", "x", "m", "l">>
\* paths that serve does not know
PathUnknown == <<"/", "n", "o">>
PathV1NoSlash == <<"/", "v", "1">>
V1Prefix == <<"/", "v", "1", "/">>

\* the requests the handlers are given
Methods == {"GET", "POST", "OPTIONS", "PUT"}
Paths == {PathRoot, PathTrack, PathTrackSlash, PathV1, PathHealthcheck,
          PathXarth, PathRobotsTxt, PathCrossDomain, PathUnknown,
          PathV1NoSlash}
ImgValues == {"", "1"}
\* what the request's form and body turn out to be, as ExtractEvent sees it
Payloads == {"formTooLarge", "formErr", "readTooLarge", "readTimeout",
             "readErr", "empty", "small", "largeB64Err", "largeNotArray",
             "largeJSONErr", "largeArray"}
\* one more: "raw", a POST without a data field whose body is read whole and
\* is one of these, each shorter than the eight characters that the base64
\* of a JSON array of objects has at least
dataFlag == <<"d", "a", "t", "a", "=">>
RawBodies ==
    {<<>>, <<"d">>, <<"x", "y">>, <<"d", "a", "t", "a">>, dataFlag,
     <<"=", "d", "a", "t">>, dataFlag \o <<"x">>, dataFlag \o <<"x", "y">>,
     <<"d", "a", "t", "a", "x">>, <<"x">> \o dataFlag}
\* the elements (json.RawMessage, a sequence of bytes) that the decoded
\* JSON array of a large request is made of: one, two, three bytes for the
\* three paddings of base64, four bytes for an element whose re-encoding is
\* larger than maxBytesPerRequest
ElemOne == <<255>>
ElemTwo == <<123, 125>>
ElemThree == <<255, 239, 190>>
ElemFour == <<123, 0, 255, 125>>
\* a decoded JSON array of at most n elements of S
ElemSeqs(n, S) == UNION {[1..k -> S] : k \in 1..n}

\* concurrent clients sending single events to the ingest paths
LoadConcurrent ==
    [reqs |-> Reqs, methods |-> {"GET", "POST"}, paths |-> {PathTrack, PathV1},
     imgs |-> {""}, payloads |-> {"empty", "small"}, elems |-> 1,
     elemSet |-> {}, hle |-> {FALSE}, record |-> FALSE]
\* one client, any request
LoadOne ==
    [reqs |-> {1}, methods |-> Methods, paths |-> Paths, imgs |-> ImgValues,
     payloads |-> Payloads, elems |-> MaxElems,
     elemSet |-> {ElemTwo, ElemFour}, hle |-> BOOLEAN, record |-> FALSE]
\* one client posting raw bodies
LoadBody ==
    [reqs |-> {1}, methods |-> {"POST"}, paths |-> {PathTrack}, imgs |-> {""},
     payloads |-> {"raw"}, bodies |-> RawBodies, elems |-> 1, elemSet |-> {},
     hle |-> BOOLEAN, record |-> TRUE]
\* one client, any request line, small payloads; the request record keeps
\* the method and the path (RequestContext.Method, RequestContext.Endpoint)
LoadRoute ==
    [reqs |-> {1}, methods |-> Methods, paths |-> Paths, imgs |-> ImgValues,
     payloads |-> {"empty", "small"}, elems |-> 1, elemSet |-> {},
     hle |-> {FALSE}, record |-> TRUE]
\* one client sending large requests to be split
LoadSplit ==
    [reqs |-> {1}, methods |-> {"POST"}, paths |-> {PathTrack}, imgs |-> {""},
     payloads |-> {"largeArray"}, elems |-> MaxSplitElems,
     elemSet |-> {ElemOne, ElemTwo, ElemThree, ElemFour}, hle |-> {TRUE},
     record |-> FALSE]

\* --------------------------------------------------------- pure helpers
HasPrefix(s, p) == Len(s) >= Len(p) /\ SubSeq(s, 1, Len(p)) = p

allowedMethods(m) == m \in {"GET", "POST", "OPTIONS"}

\* mutant of shouldWritePixel: the value of img is compared with "true"
shouldWritePixelTrue(img) == img = "true"

shouldWritePixel(img) == img = "1"

\* the bytes of the transparent GIF
transparentPixel ==
    <<71, 73, 70, 56, 57, 97, 1, 0, 1, 0,
      128, 0, 0, 0, 0, 0, 255, 255, 255,
      33, 249, 4, 1, 0, 0, 0, 0, 44, 0,
      0, 0, 0, 1, 0, 1, 0, 0, 2, 1, 68, 0, 59>>

\* writePixel: the body the client has got when w.Write succeeded; what
\* reached it of a failed Write is left out
writePixel(pixelOk) ==
    [err |-> ~pixelOk, body |-> IF pixelOk THEN transparentPixel ELSE <<>>]

\* encoding/base64: the alphabet of StdEncoding and its padding character
encodeStd ==
    <<"A", "B", "C", "D", "E", "F", "G", "H", "I", "J", "K", "L", "M", "N", "O",
      "P", "Q", "R", "S", "T", "U", "V", "W", "X", "Y", "Z", "a", "b", "c", "d",
      "e", "f", "g", "h", "i", "j", "k", "l", "m", "n", "o", "p", "q", "r", "s",
      "t", "u", "v", "w", "x", "y", "z", "0", "1", "2", "3", "4", "5", "6", "7",
      "8", "9", "+", "/">>
\* the alphabet of URLEncoding
encodeURL == [i \in 1..64 |-> IF i = 63 THEN "-" ELSE IF i = 64 THEN "_"
                                                  ELSE encodeStd[i]]
StdPadding == "="

\* Encoding.EncodeToString with alphabet al on the bytes src: three bytes give
\* four characters, a rest of one or two bytes is padded
RECURSIVE EncodeToString(_, _)
EncodeToString(al, src) ==
    LET c(v) == al[v + 1] IN
    IF src = <<>> THEN <<>>
    ELSE IF Len(src) = 1 THEN
        <<c(src[1] \div 4), c((src[1] % 4) * 16), StdPadding, StdPadding>>
    ELSE IF Len(src) = 2 THEN
        <<c(src[1] \div 4), c((src[1] % 4) * 16 + src[2] \div 16),
          c((src[2] % 16) * 4), StdPadding>>
    ELSE <<c(src[1] \div 4), c((src[1] % 4) * 16 + src[2] \div 16),
           c((src[2] % 16) * 4 + src[3] \div 64), c(src[3] % 64)>>
         \o EncodeToString(al, SubSeq(src, 4, Len(src)))

\* the value of character ch in alphabet al, -1 when it is not in it
decodeMap(al, ch) ==
    IF \E i \in 1..64 : al[i] = ch
    THEN (CHOOSE i \in 1..64 : al[i] = ch) - 1 ELSE -1

\* Encoding.DecodeString with alphabet al: four characters give three bytes,
\* padding is accepted in the last quantum only; err is CorruptInputError
RECURSIVE DecodeString(_, _)
DecodeString(al, s) ==
    IF s = <<>> THEN [err |-> FALSE, bytes |-> <<>>]
    ELSE IF Len(s) < 4 THEN [err |-> TRUE, bytes |-> <<>>]
    ELSE
        LET v(i) == decodeMap(al, s[i])
            last == Len(s) = 4
            q == IF v(1) < 0 \/ v(2) < 0 THEN [err |-> TRUE, bytes |-> <<>>]
                 ELSE IF s[3] = StdPadding THEN
                     IF s[4] = StdPadding /\ last
                     THEN [err |-> FALSE, bytes |-> <<v(1) * 4 + v(2) \div 16>>]
                     ELSE [err |-> TRUE, bytes |-> <<>>]
                 ELSE IF v(3) < 0 THEN [err |-> TRUE, bytes |-> <<>>]
                 ELSE IF s[4] = StdPadding THEN
                     IF last
                     THEN [err |-> FALSE,
                           bytes |-> <<v(1) * 4 + v(2) \div 16,
                                       (v(2) % 16) * 16 + v(3) \div 4>>]
                     ELSE [err |-> TRUE, bytes |-> <<>>]
                 ELSE IF v(4) < 0 THEN [err |-> TRUE, bytes |-> <<>>]
                 ELSE [err |-> FALSE,
                       bytes |-> <<v(1) * 4 + v(2) \div 16,
                                   (v(2) % 16) * 16 + v(3) \div 4,
                                   (v(3) % 4) * 64 + v(4)>>]
            rest == DecodeString(al, SubSeq(s, 5, Len(s)))
        IN  IF q.err \/ rest.err THEN [err |-> TRUE, bytes |-> <<>>]
            ELSE [err |-> FALSE, bytes |-> q.bytes \o rest.bytes]

\* mutant of encEvent: the element is encoded with the URL alphabet
encEventURL(event) == EncodeToString(encodeURL, event)

\* the split loop: encEvent := base64.StdEncoding.EncodeToString(event)
encEvent(event) == EncodeToString(encodeStd, event)

\* mutant of tooLarge: the length of the element is taken, not that of its
\* encoding
tooLargeRaw(event) == Len(event) > maxBytesPerRequest

\* the split loop: len(bEvent) > maxBytesPerRequest
tooLarge(event) == Len(encEvent(event)) > maxBytesPerRequest

\* mutant of Route: the prefix is compared without its closing slash
RouteV1NoSlash(path) ==
    LET p == IF HasPrefix(path, PathV1NoSlash) THEN PathTrack ELSE path
    IN  IF p = PathCrossDomain THEN "crossdomain"
        ELSE IF p = PathRobotsTxt THEN "robots"
        ELSE IF p = PathHealthcheck THEN "healthcheck"
        ELSE IF p = PathXarth THEN "xarth"
        ELSE IF p \in {PathRoot, PathTrack, PathTrackSlash} THEN "ingest"
        ELSE "notfound"

\* the switch of serve on the (rewritten) path
Route(path) ==
    LET p == IF HasPrefix(path, V1Prefix) THEN PathTrack ELSE path
    IN  IF p = PathCrossDomain THEN "crossdomain"
        ELSE IF p = PathRobotsTxt THEN "robots"
        ELSE IF p = PathHealthcheck THEN "healthcheck"
        ELSE IF p = PathXarth THEN "xarth"
        ELSE IF p \in {PathRoot, PathTrack, PathTrackSlash} THEN "ingest"
        ELSE "notfound"

\* the tail of serve after handleSpadeRequests returned status hs
Respond(img, hs, pixelOk) ==
    IF shouldWritePixel(img)
    THEN IF pixelOk THEN StatusOK ELSE StatusInternalServerError
    ELSE hs

\* the body serve has written for an ingest request
RespondBody(img, pixelOk) ==
    IF shouldWritePixel(img) THEN writePixel(pixelOk).body ELSE <<>>

\* bytes.MinRead, the capacity of the buffer ioutil.ReadAll starts with
MinRead == 512
\* the capacity of the slice ioutil.ReadAll returns for a body b
readAllCap(b) == IF Len(b) < MinRead THEN MinRead ELSE Len(b)
\* a byte of the buffer that no Read has written
NUL == "NUL"

\* mutant of rawBody: four bytes are stripped
rawBodyStripsFour(b) ==
    LET head == [i \in 1..5 |-> IF i <= Len(b) THEN b[i] ELSE NUL] IN
    IF readAllCap(b) < 5 THEN [panic |-> TRUE, badClient |-> FALSE, data |-> <<>>]
    ELSE IF head = dataFlag THEN
        IF Len(b) < 4 THEN [panic |-> TRUE, badClient |-> TRUE, data |-> <<>>]
        ELSE [panic |-> FALSE, badClient |-> TRUE, data |-> SubSeq(b, 5, Len(b))]
    ELSE [panic |-> FALSE, badClient |-> FALSE, data |-> b]

\* ExtractEvent on the body b that ioutil.ReadAll returned: b[:5] reaches
\* into the capacity of b when b is shorter, and panics beyond it, as b[5:]
\* does beyond the length of b
rawBody(b) ==
    LET head == [i \in 1..5 |-> IF i <= Len(b) THEN b[i] ELSE NUL] IN
    IF readAllCap(b) < 5 THEN [panic |-> TRUE, badClient |-> FALSE, data |-> <<>>]
    ELSE IF head = dataFlag THEN
        IF Len(b) < 5 THEN [panic |-> TRUE, badClient |-> TRUE, data |-> <<>>]
        ELSE [panic |-> FALSE, badClient |-> TRUE, data |-> SubSeq(b, 6, Len(b))]
    ELSE [panic |-> FALSE, badClient |-> FALSE, data |-> b]

\* ExtractEvent up to the point where it builds its first event; body is
\* what a "raw" payload is made of
ExtractEvent(method, payload, body, hle) ==
    CASE payload = "raw" ->
            LET rb == rawBody(body) IN
            IF rb.panic THEN [kind |-> "panic", status |-> 0]
            ELSE IF rb.data = <<>>
            THEN [kind |-> "fail", status |-> StatusBadRequest]
            ELSE IF Len(rb.data) > maxBytesPerRequest
            THEN [kind |-> "fail", status |-> StatusRequestEntityTooLarge]
            ELSE [kind |-> "single", status |-> 0]
      [] payload = "formTooLarge" -> [kind |-> "fail", status |-> StatusRequestEntityTooLarge]
      [] payload = "formErr" -> [kind |-> "fail", status |-> StatusBadRequest]
      [] payload = "readTooLarge" -> [kind |-> "fail", status |-> StatusRequestEntityTooLarge]
      [] payload = "readTimeout" -> [kind |-> "fail", status |-> StatusBadGateway]
      [] payload = "readErr" -> [kind |-> "fail", status |-> StatusBadRequest]
      [] payload = "empty" -> [kind |-> "fail", status |-> StatusBadRequest]
      [] payload = "small" -> [kind |-> "single", status |-> 0]
      [] payload \in {"largeB64Err", "largeNotArray", "largeJSONErr"} ->
            [kind |-> "fail", status |-> StatusRequestEntityTooLarge]
      [] payload = "largeArray" ->
            IF hle THEN [kind |-> "split", status |-> 0]
            ELSE [kind |-> "fail", status |-> StatusRequestEntityTooLarge]

\* the body is read with ioutil.ReadAll only for a POST without a data field
PayloadPossible(method, payload) ==
    payload \in {"readTooLarge", "readTimeout", "readErr", "raw"} =>
        method = "POST"

\* ------------------------------------------------------------ the state
IdleReq == [pc |-> "idle", method |-> "", path |-> <<>>,
            route |-> "none", img |-> "", kind |-> "none",
            arr |-> <<>>, left |-> <<>>, e |-> 0, attempts |-> 0, succ |-> 0, fail |-> 0,
            code |-> 0, hs |-> 0, status |-> 0, body |-> <<>>,
            raw |-> <<>>, data |-> <<>>, badClient |-> FALSE]

NoEvent == [req |-> 0, data |-> <<>>, logs |-> 0, s3Calls |-> 0,
            kinCalls |-> 0, s3 |-> "none", kin |-> "none", passed |-> FALSE,
            errFrom |-> 0, ret |-> "none", fmt |-> "none"]

InitWith(l) ==
    /\ load = l
    /\ handleLargeEvents \in l.hle
    /\ req = [r \in Reqs |-> IdleReq]
    /\ ev = [e \in Events |-> NoEvent]
    /\ eventCount = 0
    /\ elClosed = FALSE
    /\ elWg = 0
    /\ closer = [pc |-> "idle", calls |-> 0]
    /\ s3Lines = <<>>
    /\ s3CloseCalls = 0
    /\ kl = [chClosed |-> FALSE, errClosed |-> FALSE, wg |-> 0,
             gpc |-> "spawned", msg |-> 0, closePc |-> "idle"]
    /\ prod = [running |-> TRUE, buf |-> <<>>, added |-> <<>>,
               failed |-> {}, dropped |-> {}, remaining |-> {}]
    /\ fallbackLines = {}
    /\ s3Audit = [lines |-> <<>>, closeCalls |-> 0]
    /\ proc = "running"

\* --------------------------------------------------- the request handler
\* fmt's %08x: the hexadecimal digits of n, zero-padded to eight (a number
\* of more than eight digits is beyond the events of a run here)
Hex08(n) == [i \in 1..8 |-> (n \div (16 ^ (8 - i))) % 16]

\* the uuid buildEvent gives the event that got count at time now
uuid(now, count) == <<"instanceID", "-">> \o Hex08(now) \o <<"-">> \o Hex08(count)

\* mutant of buildEvent: the increment is a read and a write, and the write
\* of a concurrent increment can be lost
buildEventNotAtomic(r, data) ==
    /\ eventCount < MaxEvents
    /\ eventCount' \in {eventCount, eventCount + 1}
    /\ ev' = [ev EXCEPT ![eventCount + 1].req = r,
                        ![eventCount + 1].data = data]

\* buildEvent: the atomic increment of eventCount names the event
buildEvent(r, data) ==
    /\ eventCount < MaxEvents
    /\ eventCount' = eventCount + 1
    /\ ev' = [ev EXCEPT ![eventCount + 1].req = r,
                        ![eventCount + 1].data = data]

\* ServeHTTP from RequestSetup to the first call of EdgeLoggers.log, or to
\* the response when no event is built
ServeHTTP(r) ==
    /\ proc = "running"
    /\ req[r].pc = "idle"
    /\ r \in load.reqs
    /\ \E m \in load.methods, p \in load.paths :
        LET line == IF load.record
                    THEN [IdleReq EXCEPT !.method = m, !.path = p]
                    ELSE IdleReq
            other(st) == [line EXCEPT !.pc = "done", !.route = "other",
                                      !.status = st]
        IN
        IF ~allowedMethods(m) THEN
            /\ req' = [req EXCEPT ![r] = other(StatusBadRequest)]
            /\ UNCHANGED <<ev, eventCount>>
        ELSE IF m = "OPTIONS" THEN
            /\ req' = [req EXCEPT ![r] = other(StatusOK)]
            /\ UNCHANGED <<ev, eventCount>>
        ELSE IF Route(p) = "healthcheck" THEN
            /\ req' = [req EXCEPT ![r] = other(StatusOK)]
            /\ UNCHANGED <<ev, eventCount>>
        ELSE IF Route(p) \in {"crossdomain", "robots", "xarth"} THEN
            \* w.Write of the fixed body succeeds or fails
            /\ \E st \in {StatusOK, StatusInternalServerError} :
                req' = [req EXCEPT ![r] = other(st)]
            /\ UNCHANGED <<ev, eventCount>>
        ELSE IF Route(p) = "notfound" THEN
            /\ req' = [req EXCEPT ![r] = other(StatusNotFound)]
            /\ UNCHANGED <<ev, eventCount>>
        ELSE \E i \in load.imgs, pl \in load.payloads :
            \E b \in IF pl = "raw" THEN load.bodies ELSE {<<>>} :
            LET x == ExtractEvent(m, pl, b, handleLargeEvents)
                rb == IF pl = "raw" /\ x.kind # "panic" THEN rawBody(b)
                      ELSE [badClient |-> FALSE, data |-> <<>>]
                ingest == [line EXCEPT !.route = "ingest", !.img = i,
                                       !.kind = x.kind, !.raw = b,
                                       !.data = rb.data,
                                       !.badClient = rb.badClient]
            IN
            /\ PayloadPossible(m, pl)
            /\ IF x.kind = "panic" THEN
                  \* the server recovers the panic and drops the connection
                  /\ req' = [req EXCEPT ![r] = [ingest EXCEPT !.pc = "done"]]
                  /\ UNCHANGED <<ev, eventCount>>
               ELSE IF x.kind = "fail" THEN
                  /\ \E pixelOk \in BOOLEAN :
                     req' = [req EXCEPT ![r] =
                        [ingest EXCEPT !.pc = "done", !.hs = x.status,
                                       !.status = Respond(i, x.status, pixelOk),
                                       !.body = RespondBody(i, pixelOk)]]
                  /\ UNCHANGED <<ev, eventCount>>
               ELSE IF x.kind = "single" THEN
                  /\ buildEvent(r, rb.data)
                  /\ req' = [req EXCEPT ![r] =
                        [ingest EXCEPT !.pc = "log_add", !.e = eventCount + 1,
                                       !.code = IF shouldWritePixel(i)
                                                THEN StatusOK ELSE StatusNoContent]]
               ELSE \E el \in ElemSeqs(load.elems, load.elemSet) :
                  /\ buildEvent(r, encEvent(Head(el)))
                  /\ req' = [req EXCEPT ![r] =
                        [ingest EXCEPT !.pc = "log_add", !.e = eventCount + 1,
                                       !.arr = el, !.left = Tail(el),
                                       !.code = IF tooLarge(Head(el))
                                                THEN StatusRequestEntityTooLarge
                                                ELSE StatusNoContent]]
    /\ UNCHANGED <<handleLargeEvents, elClosed, elWg, closer, s3Lines,
                   s3CloseCalls, kl, prod, fallbackLines, s3Audit, proc, load>>

\* WaitGroup.Done of the EdgeLoggers: the Done that brings the counter to
\* zero releases a sleeping Wait
elDone ==
    /\ elWg' = elWg - 1
    /\ closer' = IF closer.pc = "sleep" /\ elWg = 1
                 THEN [closer EXCEPT !.pc = "woken"] ELSE closer

\* EdgeLoggers.log: e.Add(1)
LogAdd(r) ==
    /\ proc = "running"
    /\ req[r].pc = "log_add"
    /\ elWg' = elWg + 1
    /\ req' = [req EXCEPT ![r].pc = "log_check"]
    /\ ev' = [ev EXCEPT ![req[r].e].logs = @ + 1]
    /\ UNCHANGED <<eventCount, handleLargeEvents, elClosed, closer,
                   s3Lines, s3CloseCalls, kl, prod, fallbackLines, s3Audit, proc, load>>

\* mutant of logResult: the sinks' errors are dropped
logResultNever(passed, s3, kin) ==
    IF ~passed THEN "closed" ELSE "nil"

\* mutant of logResult: one failing sink fails the call
logResultEither(passed, s3, kin) ==
    IF ~passed THEN "closed"
    ELSE IF s3 = "err" \/ kin # "nil" THEN "both"
    ELSE "nil"

\* the error EdgeLoggers.log returns: "closed" when the closed check failed,
\* else from the two sinks' results
logResult(passed, s3, kin) ==
    IF ~passed THEN "closed"
    ELSE IF s3 = "err" /\ kin # "nil" THEN "both"
    ELSE "nil"

\* mutant of afterLog: the split path hands its last event back to
\* handleSpadeRequests, which logs it
afterLogReturnsEvent(r, res, pixelOk) ==
    LET q == req[r]
        succ == IF res = "nil" THEN q.succ + 1 ELSE q.succ
        fail == IF res = "nil" THEN q.fail ELSE q.fail + 1
        att == IF res = "closed" THEN q.attempts ELSE q.attempts + 2
        q1 == [q EXCEPT !.attempts = att, !.succ = succ, !.fail = fail]
        hs == IF q.kind = "single"
              THEN IF res # "nil" THEN StatusInternalServerError ELSE q.code
              ELSE IF succ = 0 THEN StatusInternalServerError ELSE q.code
    IN
    IF q.kind = "split" /\ q.left # <<>>
    THEN [q1 EXCEPT !.pc = "log_add", !.e = eventCount + 1,
                    !.left = Tail(q.left),
                    !.code = IF tooLarge(Head(q.left))
                             THEN StatusRequestEntityTooLarge ELSE q.code]
    ELSE IF q.kind = "split" /\ succ # 0
    THEN [q1 EXCEPT !.pc = "log_add", !.kind = "single"]
    ELSE [q1 EXCEPT !.pc = "done", !.hs = hs,
                    !.status = Respond(q.img, hs, pixelOk),
                    !.body = RespondBody(q.img, pixelOk)]

\* mutant of afterLog: a split request with a failed element is answered 500
afterLogFailsOnAnyError(r, res, pixelOk) ==
    LET q == req[r]
        succ == IF res = "nil" THEN q.succ + 1 ELSE q.succ
        fail == IF res = "nil" THEN q.fail ELSE q.fail + 1
        att == IF res = "closed" THEN q.attempts ELSE q.attempts + 2
        q1 == [q EXCEPT !.attempts = att, !.succ = succ, !.fail = fail]
        hs == IF q.kind = "single"
              THEN IF res # "nil" THEN StatusInternalServerError ELSE q.code
              ELSE IF fail # 0 THEN StatusInternalServerError ELSE q.code
    IN
    IF q.kind = "split" /\ q.left # <<>>
    THEN [q1 EXCEPT !.pc = "log_add", !.e = eventCount + 1,
                    !.left = Tail(q.left),
                    !.code = IF tooLarge(Head(q.left))
                             THEN StatusRequestEntityTooLarge ELSE q.code]
    ELSE [q1 EXCEPT !.pc = "done", !.hs = hs,
                    !.status = Respond(q.img, hs, pixelOk),
                    !.body = RespondBody(q.img, pixelOk)]

\* EdgeLoggers.log returns res for the event of request record q (its
\* deferred Done is elDone); the caller goes on: handleSpadeRequests and
\* serve answer a single-event request, the loop of the split path counts
\* the result and builds the next element's event
afterLog(r, res, pixelOk) ==
    LET q == req[r]
        succ == IF res = "nil" THEN q.succ + 1 ELSE q.succ
        fail == IF res = "nil" THEN q.fail ELSE q.fail + 1
        att == IF res = "closed" THEN q.attempts ELSE q.attempts + 2
        q1 == [q EXCEPT !.attempts = att, !.succ = succ, !.fail = fail]
        hs == IF q.kind = "single"
              THEN IF res # "nil" THEN StatusInternalServerError ELSE q.code
              ELSE IF succ = 0 THEN StatusInternalServerError ELSE q.code
    IN
    IF q.kind = "split" /\ q.left # <<>>
    THEN [q1 EXCEPT !.pc = "log_add", !.e = eventCount + 1,
                    !.left = Tail(q.left),
                    !.code = IF tooLarge(Head(q.left))
                             THEN StatusRequestEntityTooLarge ELSE q.code]
    ELSE [q1 EXCEPT !.pc = "done", !.hs = hs,
                    !.status = Respond(q.img, hs, pixelOk),
                    !.body = RespondBody(q.img, pixelOk)]

\* mutant of LogCheck: the closed channel is not looked at
LogCheckIgnoresClosed(r) ==
    /\ proc = "running"
    /\ req[r].pc = "log_check"
    /\ req' = [req EXCEPT ![r].pc = "log_s3"]
    /\ ev' = [ev EXCEPT ![req[r].e].passed = TRUE]
    /\ UNCHANGED <<eventCount, elWg, closer, handleLargeEvents, elClosed,
                   s3Lines, s3CloseCalls, kl, prod, fallbackLines, s3Audit, proc, load>>

\* EdgeLoggers.log: the non-blocking select on e.closed; when the channel is
\* closed log returns its error at once
LogCheck(r) ==
    /\ proc = "running"
    /\ req[r].pc = "log_check"
    /\ IF elClosed
       THEN \E pixelOk \in BOOLEAN :
            LET q == afterLog(r, logResult(FALSE, "none", "none"), pixelOk) IN
            /\ req' = [req EXCEPT ![r] = q]
            /\ elDone
            /\ eventCount' = IF q.e # req[r].e THEN eventCount + 1 ELSE eventCount
            /\ ev' = [c \in Events |->
                        IF c = req[r].e THEN [ev[c] EXCEPT !.ret = "closed"]
                        ELSE IF q.e # req[r].e /\ c = eventCount + 1
                        THEN [ev[c] EXCEPT !.req = r,
                                !.data = encEvent(Head(req[r].left))]
                        ELSE ev[c]]
       ELSE /\ req' = [req EXCEPT ![r].pc = "log_s3"]
            /\ ev' = [ev EXCEPT ![req[r].e].passed = TRUE]
            /\ UNCHANGED <<eventCount, elWg, closer>>
    /\ UNCHANGED <<handleLargeEvents, elClosed, s3Lines, s3CloseCalls, kl,
                   prod, fallbackLines, s3Audit, proc, load>>

\* mutant of s3Log: the line is put in front of the lines already handed over
s3LogPrepends(e, fmtOk) ==
    IF fmtOk THEN [err |-> FALSE, lines |-> <<e>> \o s3Lines]
    ELSE [err |-> TRUE, lines |-> s3Lines]

\* mutant of s3Log: a line that finds the uploadLogger busy is refused
s3LogFailsWhenBusy(e, fmtOk) ==
    IF fmtOk /\ s3Lines = <<>> THEN [err |-> FALSE, lines |-> Append(s3Lines, e)]
    ELSE [err |-> TRUE, lines |-> s3Lines]

\* s3Logger.Log: format the event, hand the line to the uploadLogger
s3Log(e, fmtOk) ==
    IF fmtOk THEN [err |-> FALSE, lines |-> Append(s3Lines, e)]
    ELSE [err |-> TRUE, lines |-> s3Lines]

\* mutant of LogS3: log returns the error of the object sink at once
LogS3ReturnsOnError(r) ==
    /\ proc = "running"
    /\ req[r].pc = "log_s3"
    /\ \E fmtOk \in BOOLEAN, pixelOk \in BOOLEAN :
        LET res == s3Log(req[r].e, fmtOk)
            q == afterLog(r, "both", pixelOk)
        IN
        /\ s3Lines' = res.lines
        /\ IF res.err
           THEN /\ req' = [req EXCEPT ![r] = q]
                /\ elDone
                /\ eventCount' = IF q.e # req[r].e THEN eventCount + 1
                                  ELSE eventCount
                /\ ev' = [c \in Events |->
                            IF c = req[r].e
                            THEN [ev[c] EXCEPT !.s3 = "err", !.s3Calls = @ + 1,
                                               !.fmt = "err", !.ret = "both"]
                            ELSE IF q.e # req[r].e /\ c = eventCount + 1
                            THEN [ev[c] EXCEPT !.req = r,
                                    !.data = encEvent(Head(req[r].left))]
                            ELSE ev[c]]
           ELSE /\ req' = [req EXCEPT ![r].pc = "log_kin"]
                /\ ev' = [ev EXCEPT ![req[r].e].s3 = "ok",
                                    ![req[r].e].fmt = "ok",
                                    ![req[r].e].s3Calls = @ + 1]
                /\ UNCHANGED <<eventCount, elWg, closer>>
    /\ UNCHANGED <<handleLargeEvents, elClosed, s3CloseCalls, kl, prod,
                   fallbackLines, s3Audit, proc, load>>

\* EdgeLoggers.log: eventErr := e.S3EventLogger.Log(event)
LogS3(r) ==
    /\ proc = "running"
    /\ req[r].pc = "log_s3"
    /\ \E fmtOk \in BOOLEAN :
        LET res == s3Log(req[r].e, fmtOk) IN
        /\ s3Lines' = res.lines
        /\ ev' = [ev EXCEPT ![req[r].e].s3 = IF res.err THEN "err" ELSE "ok",
                            ![req[r].e].fmt = IF fmtOk THEN "ok" ELSE "err",
                            ![req[r].e].s3Calls = @ + 1]
    /\ req' = [req EXCEPT ![r].pc = "log_kin"]
    /\ UNCHANGED <<eventCount, handleLargeEvents, elClosed, elWg, closer,
                   s3CloseCalls, kl, prod, fallbackLines, s3Audit, proc, load>>

\* kinesisLogger.Log: the cases of the select that are ready; the empty set
\* means the caller blocks
LogSelect(marshalOk) ==
    IF ~marshalOk THEN {"marshal"}
    ELSE (IF kl.gpc = "senderr" THEN {"err"} ELSE {})
         \cup (IF kl.errClosed THEN {"halted"} ELSE {})
         \cup (IF kl.chClosed THEN {"panic"} ELSE {})
         \cup (IF ~kl.chClosed /\ kl.gpc = "recv" THEN {"nil"} ELSE {})

\* EdgeLoggers.log: kinesisErr := e.KinesisEventLogger.Log(event), then the
\* two RecordLoggerAttempt calls and the return
LogKinesis(r) ==
    /\ proc = "running"
    /\ req[r].pc = "log_kin"
    /\ \E marshalOk \in BOOLEAN, pixelOk \in BOOLEAN :
       \E o \in LogSelect(marshalOk) :
        LET e == req[r].e
            res == logResult(TRUE, ev[e].s3, o)
            q == IF o = "panic"
                 THEN \* send on a closed channel: the deferred Done runs, the
                      \* server recovers the panic and drops the connection
                      [req[r] EXCEPT !.pc = "done"]
                 ELSE afterLog(r, res, pixelOk)
        IN
        /\ kl' = CASE o = "nil" -> [kl EXCEPT !.gpc = "add", !.msg = e]
                   [] o = "err" -> [kl EXCEPT !.gpc = "recv", !.msg = 0]
                   [] OTHER -> kl
        /\ req' = [req EXCEPT ![r] = q]
        /\ elDone
        /\ eventCount' = IF q.e # req[r].e THEN eventCount + 1 ELSE eventCount
        /\ ev' = [c \in Events |->
                    IF c = e
                    THEN [ev[c] EXCEPT !.kin = o, !.kinCalls = @ + 1,
                            !.errFrom = IF o = "err" THEN kl.msg ELSE 0,
                            !.ret = IF o = "panic" THEN "panic" ELSE res]
                    ELSE IF q.e # req[r].e /\ c = eventCount + 1
                    THEN [ev[c] EXCEPT !.req = r,
                            !.data = encEvent(Head(req[r].left))]
                    ELSE ev[c]]
    /\ UNCHANGED <<handleLargeEvents, elClosed, s3Lines, s3CloseCalls, prod,
                   fallbackLines, s3Audit, proc, load>>

\* ------------------------------------------------- the batch producer
\* producer.Add(msg, key) with AddBlocksWhenBufferFull: the outcomes for a
\* producer in state p; the empty set means the caller blocks
producerAdd(p) ==
    IF ~p.running THEN {"err"}
    ELSE IF Len(p.buf) >= BufferSize THEN {}
    ELSE {"ok", "err"}

\* the dispatcher publishes the oldest buffered record, or gives it up when
\* its attempts are exhausted
ProducerDispatch ==
    /\ proc = "running"
    /\ prod.running
    /\ prod.buf # <<>>
    /\ \E ok \in BOOLEAN :
        prod' = [prod EXCEPT !.buf = Tail(prod.buf),
                   !.dropped = IF ok THEN @ ELSE @ \cup {Head(prod.buf)}]
    /\ UNCHANGED <<req, ev, eventCount, handleLargeEvents, elClosed, elWg,
                   closer, s3Lines, s3CloseCalls, kl, fallbackLines, s3Audit, proc, load>>

\* -------------------------------- the kinesisLogger's submission goroutine
\* kl.waitGroup.Add(1), the first statement of the goroutine
GoStart ==
    /\ proc = "running"
    /\ kl.gpc = "spawned"
    /\ kl' = [kl EXCEPT !.gpc = "recv", !.wg = @ + 1]
    /\ UNCHANGED <<req, ev, eventCount, handleLargeEvents, elClosed, elWg,
                   closer, s3Lines, s3CloseCalls, prod, fallbackLines, s3Audit, proc, load>>

\* mutant of GoAdd: the error of producer.Add is logged and not sent on
\* kl.errors
GoAddSwallowsError ==
    /\ proc = "running"
    /\ kl.gpc = "add"
    /\ \E o \in producerAdd(prod) :
        /\ prod' = [prod EXCEPT !.added = Append(@, kl.msg),
                      !.buf = IF o = "ok" THEN Append(@, kl.msg) ELSE @,
                      !.failed = IF o = "ok" THEN @ ELSE @ \cup {kl.msg}]
        /\ kl' = [kl EXCEPT !.gpc = "recv", !.msg = 0]
    /\ UNCHANGED <<req, ev, eventCount, handleLargeEvents, elClosed, elWg,
                   closer, s3Lines, s3CloseCalls, fallbackLines, s3Audit, proc, load>>

\* mutant of GoAdd: a message that finds the buffer full is discarded
GoAddDropsWhenFull ==
    /\ proc = "running"
    /\ kl.gpc = "add"
    /\ IF prod.running /\ Len(prod.buf) >= BufferSize
       THEN /\ kl' = [kl EXCEPT !.gpc = "recv", !.msg = 0]
            /\ UNCHANGED prod
       ELSE \E o \in producerAdd(prod) :
            /\ prod' = [prod EXCEPT !.added = Append(@, kl.msg),
                          !.buf = IF o = "ok" THEN Append(@, kl.msg) ELSE @,
                          !.failed = IF o = "ok" THEN @ ELSE @ \cup {kl.msg}]
            /\ kl' = IF o = "ok" THEN [kl EXCEPT !.gpc = "recv", !.msg = 0]
                     ELSE [kl EXCEPT !.gpc = "senderr"]
    /\ UNCHANGED <<req, ev, eventCount, handleLargeEvents, elClosed, elWg,
                   closer, s3Lines, s3CloseCalls, fallbackLines, s3Audit, proc, load>>

\* mutant of GoAdd: a record whose producer.Add failed is added once more
GoAddRetries ==
    /\ proc = "running"
    /\ kl.gpc = "add"
    /\ \E o \in producerAdd(prod) :
        /\ prod' = [prod EXCEPT
                      !.added = IF o = "ok" THEN Append(@, kl.msg)
                                ELSE Append(Append(@, kl.msg), kl.msg),
                      !.buf = IF o = "ok" THEN Append(@, kl.msg) ELSE @,
                      !.failed = IF o = "ok" THEN @ ELSE @ \cup {kl.msg}]
        /\ kl' = IF o = "ok" THEN [kl EXCEPT !.gpc = "recv", !.msg = 0]
                 ELSE [kl EXCEPT !.gpc = "senderr"]
    /\ UNCHANGED <<req, ev, eventCount, handleLargeEvents, elClosed, elWg,
                   closer, s3Lines, s3CloseCalls, fallbackLines, s3Audit, proc, load>>

\* err := kl.producer.Add(msg, key); on an error the goroutine goes on to
\* send it on kl.errors
GoAdd ==
    /\ proc = "running"
    /\ kl.gpc = "add"
    /\ \E o \in producerAdd(prod) :
        /\ prod' = [prod EXCEPT !.added = Append(@, kl.msg),
                      !.buf = IF o = "ok" THEN Append(@, kl.msg) ELSE @,
                      !.failed = IF o = "ok" THEN @ ELSE @ \cup {kl.msg}]
        /\ kl' = IF o = "ok" THEN [kl EXCEPT !.gpc = "recv", !.msg = 0]
                 ELSE [kl EXCEPT !.gpc = "senderr"]
    /\ UNCHANGED <<req, ev, eventCount, handleLargeEvents, elClosed, elWg,
                   closer, s3Lines, s3CloseCalls, fallbackLines, s3Audit, proc, load>>

\* the range over kl.channel ends when the channel is closed; the deferred
\* close(kl.errors) runs
GoExitLoop ==
    /\ proc = "running"
    /\ kl.gpc = "recv"
    /\ kl.chClosed
    /\ kl' = [kl EXCEPT !.gpc = "flush", !.errClosed = TRUE]
    /\ UNCHANGED <<req, ev, eventCount, handleLargeEvents, elClosed, elWg,
                   closer, s3Lines, s3CloseCalls, prod, fallbackLines, s3Audit, proc, load>>

\* the deferred kl.producer.Flush(time.Second, false), which publishes or
\* gives up what is buffered and returns what remained unsent to a caller
\* that drops the result, then the deferred kl.waitGroup.Done()
GoFlushDone ==
    /\ proc = "running"
    /\ kl.gpc = "flush"
    /\ \E lost \in SUBSET {prod.buf[i] : i \in 1..Len(prod.buf)} :
        prod' = [prod EXCEPT !.buf = <<>>, !.dropped = @ \cup lost,
                             !.remaining = lost]
    /\ kl' = [kl EXCEPT !.gpc = "exited", !.wg = @ - 1]
    /\ UNCHANGED <<req, ev, eventCount, handleLargeEvents, elClosed, elWg,
                   closer, s3Lines, s3CloseCalls, fallbackLines, s3Audit, proc, load>>

\* --------------------------------------------------- kinesisLogger.Close
\* close(kl.channel); closing a closed channel panics
KlCloseChannel ==
    /\ proc = "running"
    /\ closer.pc = "kclose"
    /\ kl.closePc = "idle"
    /\ IF kl.chClosed
       THEN /\ proc' = "crashed"
            /\ UNCHANGED kl
       ELSE /\ kl' = [kl EXCEPT !.chClosed = TRUE, !.closePc = "wait"]
            /\ UNCHANGED proc
    /\ UNCHANGED <<req, ev, eventCount, handleLargeEvents, elClosed, elWg,
                   closer, s3Lines, s3CloseCalls, prod, fallbackLines, s3Audit, load>>

\* kl.waitGroup.Wait() returns when the counter is zero
KlWait ==
    /\ proc = "running"
    /\ kl.closePc = "wait"
    /\ kl.wg = 0
    /\ kl' = [kl EXCEPT !.closePc = "stop"]
    /\ UNCHANGED <<req, ev, eventCount, handleLargeEvents, elClosed, elWg,
                   closer, s3Lines, s3CloseCalls, prod, fallbackLines, s3Audit, proc, load>>

\* kl.stats.log(); kl.producer.Stop(); Close returns to EdgeLoggers.Close
KlStop ==
    /\ proc = "running"
    /\ kl.closePc = "stop"
    /\ kl' = [kl EXCEPT !.closePc = "returned"]
    /\ prod' = [prod EXCEPT !.running = FALSE]
    /\ closer' = [closer EXCEPT !.pc = "s3close"]
    /\ UNCHANGED <<req, ev, eventCount, handleLargeEvents, elClosed, elWg,
                   s3Lines, s3CloseCalls, fallbackLines, s3Audit, proc, load>>

\* ------------------------------------------------------ EdgeLoggers.Close
\* close(e.closed); closing a closed channel panics
CloseStart ==
    /\ proc = "running"
    /\ closer.pc \in {"idle", "returned"}
    /\ closer.calls < MaxCloseCalls
    /\ IF elClosed
       THEN /\ proc' = "crashed"
            /\ closer' = [closer EXCEPT !.calls = @ + 1]
            /\ UNCHANGED elClosed
       ELSE /\ elClosed' = TRUE
            /\ closer' = [pc |-> "wait", calls |-> closer.calls + 1]
            /\ UNCHANGED proc
    /\ UNCHANGED <<req, ev, eventCount, handleLargeEvents, elWg, s3Lines,
                   s3CloseCalls, kl, prod, fallbackLines, s3Audit, load>>

\* mutant of CloseWait: Close goes on to the sinks without waiting
CloseWaitSkips ==
    /\ proc = "running"
    /\ closer.pc = "wait"
    /\ closer' = [closer EXCEPT !.pc = "kclose"]
    /\ UNCHANGED <<req, ev, eventCount, handleLargeEvents, elClosed, elWg,
                   s3Lines, s3CloseCalls, kl, prod, fallbackLines, s3Audit, proc, load>>

\* e.Wait(): returns at once when the counter is zero, sleeps otherwise
CloseWait ==
    /\ proc = "running"
    /\ closer.pc = "wait"
    /\ closer' = [closer EXCEPT !.pc = IF elWg = 0 THEN "kclose" ELSE "sleep"]
    /\ UNCHANGED <<req, ev, eventCount, handleLargeEvents, elClosed, elWg,
                   s3Lines, s3CloseCalls, kl, prod, fallbackLines, s3Audit, proc, load>>

\* e.Wait() resumes after the release: sync.WaitGroup panics ("WaitGroup is
\* reused before previous Wait has returned") when an Add has raised the
\* counter again in the meantime
CloseWake ==
    /\ proc = "running"
    /\ closer.pc = "woken"
    /\ IF elWg # 0
       THEN /\ proc' = "crashed"
            /\ UNCHANGED closer
       ELSE /\ closer' = [closer EXCEPT !.pc = "kclose"]
            /\ UNCHANGED proc
    /\ UNCHANGED <<req, ev, eventCount, handleLargeEvents, elClosed, elWg,
                   s3Lines, s3CloseCalls, kl, prod, fallbackLines, s3Audit, load>>

\* mutant of CloseS3: the object sink is closed before the stream sink
CloseS3BeforeKinesis ==
    /\ proc = "running"
    /\ closer.pc \in {"kclose", "s3close"}
    /\ kl.closePc \in {"idle", "returned"}
    /\ s3CloseCalls' = s3CloseCalls + 1
    /\ closer' = [closer EXCEPT !.pc = "returned"]
    /\ UNCHANGED <<req, ev, eventCount, handleLargeEvents, elClosed, elWg,
                   s3Lines, kl, prod, fallbackLines, s3Audit, proc, load>>

\* e.S3EventLogger.Close(); Close returns
CloseS3 ==
    /\ proc = "running"
    /\ closer.pc = "s3close"
    /\ s3CloseCalls' = s3CloseCalls + 1
    /\ closer' = [closer EXCEPT !.pc = "returned"]
    /\ UNCHANGED <<req, ev, eventCount, handleLargeEvents, elClosed, elWg,
                   s3Lines, kl, prod, fallbackLines, s3Audit, proc, load>>

\* the exit code of the process in state p: os.Exit(0) gives 0, a panic
\* that nothing recovers gives 2
ExitCode(p) == CASE p = "exited" -> 0 [] p = "crashed" -> 2 [] OTHER -> -1

\* main's signal goroutine: os.Exit(0) after edgeLoggers.Close()
MainExit ==
    /\ proc = "running"
    /\ closer.pc = "returned"
    /\ proc' = "exited"
    /\ UNCHANGED <<req, ev, eventCount, handleLargeEvents, elClosed, elWg,
                   closer, s3Lines, s3CloseCalls, kl, prod, fallbackLines, s3Audit, load>>

Next ==
    \/ \E r \in Reqs : ServeHTTP(r)
    \/ \E r \in Reqs : LogAdd(r)
    \/ \E r \in Reqs : LogCheck(r)
    \/ \E r \in Reqs : LogS3(r)
    \/ \E r \in Reqs : LogKinesis(r)
    \/ ProducerDispatch
    \/ GoStart
    \/ GoAdd
    \/ GoExitLoop
    \/ GoFlushDone
    \/ KlCloseChannel
    \/ KlWait
    \/ KlStop
    \/ CloseStart
    \/ CloseWait
    \/ CloseWake
    \/ CloseS3
    \/ MainExit

\* ------------------------- the kinesisLogger used through SpadeEdgeLogger
\* a caller of kinesisLogger.Log and kinesisLogger.Close that is not the
\* EdgeLoggers: it makes no closed check of its own
\* kl.Log(e) for the next event; a panic of the caller ends the process
SinkLog ==
    /\ proc = "running"
    /\ \E e \in Events :
        /\ ev[e].kin = "none"
        /\ \A f \in Events : f < e => ev[f].kin # "none"
        /\ \E marshalOk \in BOOLEAN : \E o \in LogSelect(marshalOk) :
            /\ kl' = CASE o = "nil" -> [kl EXCEPT !.gpc = "add", !.msg = e]
                       [] o = "err" -> [kl EXCEPT !.gpc = "recv", !.msg = 0]
                       [] OTHER -> kl
            /\ ev' = [ev EXCEPT ![e].kin = o, ![e].kinCalls = @ + 1,
                                ![e].errFrom = IF o = "err" THEN kl.msg ELSE 0,
                                ![e].ret = o]
            /\ proc' = IF o = "panic" THEN "crashed" ELSE proc
    /\ UNCHANGED <<req, eventCount, handleLargeEvents, elClosed, elWg, closer,
                   s3Lines, s3CloseCalls, prod, fallbackLines, s3Audit, load>>

\* the caller goes on to call kl.Close()
SinkClose ==
    /\ proc = "running"
    /\ closer.pc = "idle"
    /\ closer' = [pc |-> "kclose", calls |-> closer.calls + 1]
    /\ UNCHANGED <<req, ev, eventCount, handleLargeEvents, elClosed, elWg,
                   s3Lines, s3CloseCalls, kl, prod, fallbackLines, s3Audit, proc, load>>

NextSink ==
    \/ SinkLog
    \/ SinkClose
    \/ ProducerDispatch
    \/ GoStart
    \/ GoAdd
    \/ GoExitLoop
    \/ GoFlushDone
    \/ KlCloseChannel
    \/ KlWait
    \/ KlStop

\* no HTTP requests: the stream sink alone
LoadSink ==
    [reqs |-> {}, methods |-> {}, paths |-> {}, imgs |-> {}, payloads |-> {},
     elems |-> 1, elemSet |-> {}, hle |-> {FALSE}, record |-> FALSE]

Init == InitWith(LoadConcurrent)
InitOne == InitWith(LoadOne)
InitSink == InitWith(LoadSink)
InitSplit == InitWith(LoadSplit)
InitRoute == InitWith(LoadRoute)
InitBody == InitWith(LoadBody)

\* concurrent handlers, single events
Spec == Init /\ [][Next]_vars
\* one handler, every kind of request
SpecOne == InitOne /\ [][Next]_vars
\* one handler, large requests that are split
SpecSplit == InitSplit /\ [][Next]_vars
\* one handler, every request line
SpecRoute == InitRoute /\ [][Next]_vars
\* one handler, POST requests without a data field
SpecBody == InitBody /\ [][Next]_vars
\* the kinesisLogger alone, called directly
SpecSink == InitSink /\ [][NextSink]_vars

TypeOK ==
    /\ eventCount \in 0..MaxEvents
    /\ elWg \in 0..NumReq
    /\ kl.wg \in 0..1
    /\ proc \in {"running", "crashed", "exited"}
    /\ Len(prod.buf) <= BufferSize

\* the scheduler runs every goroutine that can take a step; requests and
\* SIGINT arrive when they arrive
Fairness ==
    /\ \A r \in Reqs : WF_vars(LogAdd(r)) /\ WF_vars(LogCheck(r))
                       /\ WF_vars(LogS3(r)) /\ WF_vars(LogKinesis(r))
    /\ WF_vars(ProducerDispatch)
    /\ WF_vars(GoStart) /\ WF_vars(GoAdd) /\ WF_vars(GoExitLoop)
    /\ WF_vars(GoFlushDone)
    /\ WF_vars(KlCloseChannel) /\ WF_vars(KlWait) /\ WF_vars(KlStop)
    /\ WF_vars(CloseWait) /\ WF_vars(CloseWake) /\ WF_vars(CloseS3)
    /\ WF_vars(MainExit)

FairSpec == Spec /\ Fairness

\* ------------------------------------------------------------ properties
EventsOf(r) == {e \in Events : ev[e].req = r}
Answered(r) == req[r].pc = "done" /\ req[r].route = "ingest"
\* a sink's Log returned nil for event e
SinkOk(e) == ev[e].s3 = "ok" \/ ev[e].kin = "nil"
\* KinesisEventLogger.Log returned an error for event e
KinesisErr(e) == ev[e].kin \in {"err", "halted", "marshal"}
Added == {prod.added[i] : i \in 1..Len(prod.added)}
Buffered == {prod.buf[i] : i \in 1..Len(prod.buf)}

\* C1: an ingest request answered with a 2xx status has an event for which
\* at least one of the two sinks' Log returned success
C1_TwoXXImpliesSink ==
    \A r \in Reqs :
        (Answered(r) /\ Is2xx(req[r].status)) =>
            \E e \in EventsOf(r) : SinkOk(e)

\* C2: every event of an answered request went into both sinks, or the
\* request was answered with a non-2xx status (stated for the requests
\* without img=1, which are answered with the status handleSpadeRequests
\* returns)
C2_BothSinksOrNon2xx ==
    \A r \in Reqs : \A e \in EventsOf(r) :
        (Answered(r) /\ req[r].img = "") =>
            \/ ev[e].s3 = "ok" /\ ev[e].kin = "nil"
            \/ ~Is2xx(req[r].status)

\* C2 (amended): a request for which handleSpadeRequests returns a 2xx
\* status has an event that went into at least one sink, not necessarily
\* both; for a single-event request that is the event it carried
C2_OneSinkOrNon2xx ==
    \A r \in Reqs :
        (Answered(r) /\ Is2xx(req[r].hs)) =>
            /\ \E e \in EventsOf(r) : SinkOk(e)
            /\ req[r].kind = "single" => SinkOk(req[r].e)

C2_Witness ==
    \E r \in Reqs :
        /\ Answered(r) /\ req[r].kind = "single"
        /\ req[r].hs = StatusNoContent
        /\ ev[req[r].e].s3 = "err" /\ ev[req[r].e].kin = "nil"

\* C3: a single-event request without img=1 whose log call passed the closed
\* check is answered 204 when exactly one sink's Log returned an error, the
\* other sink's Log having been called, and 500 when both returned an error
C3_PartialFailure ==
    \A r \in Reqs :
        LET e == req[r].e IN
        (Answered(r) /\ req[r].kind = "single" /\ req[r].img = ""
                     /\ ev[e].passed /\ ev[e].ret # "panic") =>
            /\ ((ev[e].s3 = "err") # KinesisErr(e)) =>
                    /\ req[r].status = StatusNoContent
                    /\ ev[e].s3 # "none" /\ ev[e].kin # "none"
            /\ (ev[e].s3 = "err" /\ KinesisErr(e)) =>
                    req[r].status = StatusInternalServerError

C3_Witness ==
    \E r1, r2 \in Reqs :
        /\ Answered(r1) /\ req[r1].kind = "single"
        /\ ev[req[r1].e].s3 = "err" /\ ev[req[r1].e].kin = "nil"
        /\ req[r1].status = StatusNoContent
        /\ Answered(r2) /\ req[r2].kind = "single"
        /\ ev[req[r2].e].s3 = "err" /\ ev[req[r2].e].kin = "err"
        /\ req[r2].status = StatusInternalServerError

\* a log call that passed the closed check and has not returned
InFlight(r) == req[r].pc \in {"log_s3", "log_kin"}

\* C4: neither sink's Close has been called while a log call that passed the
\* closed check has not returned, so no sink's Log runs during or after that
\* sink's Close
C4_CloseWaitsForLogs ==
    (kl.closePc # "idle" \/ s3CloseCalls > 0) =>
        \A r \in Reqs : ~InFlight(r)

C4_Witness ==
    /\ closer.pc = "sleep"
    /\ \E r \in Reqs : InFlight(r)

\* C5: a log call that makes its closed check when the closed flag is set
\* returns its error in that step: neither sink's Log is called, no logger
\* attempt is recorded, and a single-event request gets 500 from
\* handleSpadeRequests
C5_ClosedLogFails ==
    [][\A r \in Reqs :
        (req[r].pc = "log_check" /\ elClosed /\ req'[r] # req[r]) =>
            /\ ev'[req[r].e].ret = "closed"
            /\ ev'[req[r].e].s3 = "none" /\ ev'[req[r].e].kin = "none"
            /\ s3Lines' = s3Lines /\ kl' = kl /\ prod' = prod
            /\ req'[r].attempts = req[r].attempts
            /\ req[r].kind = "single" =>
                 /\ req'[r].pc = "done"
                 /\ req'[r].hs = StatusInternalServerError]_vars

C5_Witness ==
    \E r \in Reqs :
        /\ Answered(r) /\ req[r].kind = "single"
        /\ ev[req[r].e].ret = "closed"
        /\ req[r].hs = StatusInternalServerError /\ req[r].attempts = 0

\* C6: a second call of Close completes without a panic
C6_SecondCloseSafe ==
    closer.calls >= 2 => proc # "crashed"

\* C7: kinesisLogger.Close, once it has closed the channel, eventually
\* returns with the submission goroutine exited, whatever the goroutine was
\* doing
C7_CloseReturns ==
    (kl.closePc = "wait") ~> (kl.closePc = "returned" /\ kl.gpc = "exited")

\* C8: once a producer.Add error has been observed, every later Log call
\* returns that error (one handler: the events are logged one after the
\* other, in the order of their numbers)
C8_EveryLaterLogFails ==
    \A e \in prod.failed : \A f \in Events :
        (f > e /\ ev[f].kin \in {"nil", "err", "halted"}) => ev[f].kin = "err"

\* C8 (amended): a producer.Add error is returned by the next Log call that
\* reaches its select and by no other; that call does not submit its record,
\* and the Log calls after it submit theirs again
C8_ErrorDeliveredOnce ==
    /\ \A e \in Events :
        ev[e].kin = "err" =>
            /\ ev[e].errFrom \in prod.failed
            /\ e \notin Added /\ e # kl.msg
    /\ \A e, f \in Events :
        (e # f /\ ev[e].kin = "err" /\ ev[f].kin = "err") =>
            ev[e].errFrom # ev[f].errFrom
    /\ \A e \in prod.failed : \A f \in Events :
        (f = e + 1 /\ ev[f].kin \in {"nil", "err", "halted"}) =>
            ev[f].kin = "err" /\ ev[f].errFrom = e

C8_Witness ==
    \E e \in prod.failed :
        /\ e + 2 \in Events
        /\ ev[e + 1].kin = "err"
        /\ ev[e + 2].kin = "nil"

\* C9: every record passed to a Log call that went through its select has
\* been handed to producer.Add, or is held by the goroutine for it
C9_EveryRecordAdded ==
    \A e \in Events :
        ev[e].kin \in {"nil", "err"} => (e \in Added \/ e = kl.msg)

\* C9 (amended): every record for which Log returned nil has been handed to
\* producer.Add or is held by the goroutine for it; a record whose Log call
\* returned an error was not submitted; while the buffer is full the
\* goroutine of a running sink keeps its record and the Log callers block
C9_NilMeansAdded ==
    /\ \A e \in Events :
        /\ ev[e].kin = "nil" => (e \in Added \/ (e = kl.msg /\ kl.gpc = "add"))
        /\ KinesisErr(e) => (e \notin Added /\ e # kl.msg)
    /\ (kl.gpc = "add" /\ ~kl.chClosed /\ Len(prod.buf) >= BufferSize) =>
        /\ kl.msg \in Events /\ kl.msg \notin Added
        /\ LogSelect(TRUE) = {}
    /\ Buffered \subseteq Added

C9_Witness ==
    /\ kl.gpc = "add" /\ Len(prod.buf) = BufferSize
    /\ \E r \in Reqs : req[r].pc = "log_kin"
    /\ \E e \in Added : ev[e].kin = "nil"

\* C10: when the process has exited, every record the stream sink gave up on
\* (its producer.Add failed or its attempts were exhausted) is in the
\* fallback sink
C10_FallbackComplete ==
    proc = "exited" => (prod.failed \cup prod.dropped) \subseteq fallbackLines

\* C11: a kinesisLogger.Log call made after kinesisLogger.Close has been
\* called returns an error, "Processing halted" when the event marshals: it
\* submits no record and does not panic
C11_LogAfterCloseHalts ==
    [][\A e \in Events :
        (kl.closePc # "idle" /\ ev[e].kin = "none" /\ ev'[e].kin # "none") =>
            /\ ev'[e].kin \in {"halted", "marshal"}
            /\ proc' = proc /\ kl'.msg = kl.msg]_vars

\* C12: S3EventLogger.Close is called only after KinesisEventLogger.Close
\* has returned, and neither sink's Close is called before the closed flag
\* is set
C12_CloseOrder ==
    /\ s3CloseCalls > 0 => kl.closePc = "returned"
    /\ (kl.closePc # "idle" \/ s3CloseCalls > 0) => elClosed
    /\ closer.pc \in {"kclose", "s3close"} => elClosed

C12_Witness ==
    /\ s3CloseCalls = 1 /\ kl.closePc = "returned" /\ elClosed
    /\ closer.pc = "returned"

\* the place of event e in a sequence of events it occurs in
Pos(seq, e) == CHOOSE i \in 1..Len(seq) : seq[i] = e
S3Written == {s3Lines[i] : i \in 1..Len(s3Lines)}

\* C13: two events of one handler, logged in the order e, f (the order in
\* which they were built): when kinesisLogger.Log returned nil for both, e is
\* passed to producer.Add before f; when s3Logger.Log returned nil for both,
\* the line of e is handed to the object sink before the line of f
C13_OrderPerSink ==
    \A e, f \in Events :
        (e < f /\ ev[e].req # 0 /\ ev[e].req = ev[f].req) =>
            /\ (ev[e].kin = "nil" /\ ev[f].kin = "nil") =>
                  /\ e \in Added
                  /\ f \in Added => Pos(prod.added, e) < Pos(prod.added, f)
                  /\ f \notin Added => f = kl.msg
            /\ (ev[e].s3 = "ok" /\ ev[f].s3 = "ok") =>
                  /\ e \in S3Written /\ f \in S3Written
                  /\ Pos(s3Lines, e) < Pos(s3Lines, f)

C13_Witness ==
    \E e, f \in Events :
        /\ e < f /\ ev[e].req # 0 /\ ev[e].req = ev[f].req
        /\ ev[e].kin = "nil" /\ ev[f].kin = "nil"
        /\ ev[e].s3 = "ok" /\ ev[f].s3 = "ok"
        /\ e \in Added /\ f \in Added

\* C14: the requests that built an event got pairwise distinct counts, so
\* their uuids differ even when built in the same second, and eventCount is
\* the number of buildEvent calls (one for each request with a single event)
C14_DistinctUuids ==
    /\ \A r1, r2 \in Reqs :
        (r1 # r2 /\ req[r1].e # 0 /\ req[r2].e # 0) =>
            /\ req[r1].e # req[r2].e
            /\ \A now \in 0..1 : uuid(now, req[r1].e) # uuid(now, req[r2].e)
    /\ (\A r \in Reqs : req[r].kind # "split") =>
            eventCount = Cardinality({r \in Reqs : req[r].e # 0})
    /\ \A e \in Events : ev[e].req # 0 <=> e <= eventCount

C14_Witness ==
    /\ eventCount = NumReq
    /\ \A r \in Reqs : req[r].e # 0 /\ req[r].pc \in {"log_add", "log_check"}

\* the number of audit lines written for event e
AuditLinesOf(e) == Cardinality({i \in 1..Len(s3Audit.lines) : s3Audit.lines[i] = e})

\* C15: every event that a log call handed to the event sinks has exactly
\* one line in the audit sink, and the audit sink has been closed when the
\* process exits after Close
C15_AuditPerEvent ==
    /\ \A e \in Events : ev[e].ret \in {"nil", "both"} => AuditLinesOf(e) = 1
    /\ proc = "exited" => s3Audit.closeCalls > 0

\* the number of times event e occurs in a sequence of events
Count(seq, e) == Cardinality({i \in 1..Len(seq) : seq[i] = e})

\* C16: an event is passed to EdgeLoggers.log at most once and each sink's
\* Log is called at most once for it; every event of a request other than
\* the one it is logging, and every event of an answered request, has been
\* passed to EdgeLoggers.log exactly once
C16_LoggedOnce ==
    /\ \A e \in Events :
        /\ ev[e].logs <= 1 /\ ev[e].s3Calls <= 1 /\ ev[e].kinCalls <= 1
        /\ Count(s3Lines, e) <= 1 /\ Count(prod.added, e) <= 1
    /\ \A r \in Reqs : \A e \in EventsOf(r) :
        (e # req[r].e \/ Answered(r)) => ev[e].logs = 1

C16_Witness ==
    \E r \in Reqs :
        /\ Answered(r) /\ req[r].kind = "split" /\ Len(req[r].arr) = MaxElems
        /\ \A e \in EventsOf(r) : ev[e].s3Calls = 1 /\ ev[e].kinCalls = 1

\* the place of event e among the events of its request, in the order in
\* which they were built and logged
Rank(e) == Cardinality({f \in EventsOf(ev[e].req) : f <= e})

\* C17: the i-th event a split request logs carries the i-th element of the
\* decoded array: decoding its data with StdEncoding gives that element; an
\* answered split request has logged as many events as the array has
\* elements, each once
C17_SplitRoundTrip ==
    \A r \in Reqs :
        req[r].kind = "split" =>
            /\ \A e \in EventsOf(r) :
                /\ Rank(e) <= Len(req[r].arr)
                /\ DecodeString(encodeStd, ev[e].data) =
                        [err |-> FALSE, bytes |-> req[r].arr[Rank(e)]]
            /\ Answered(r) =>
                /\ Cardinality(EventsOf(r)) = Len(req[r].arr)
                /\ \A e \in EventsOf(r) : ev[e].logs = 1

C17_Witness ==
    \E r \in Reqs :
        /\ Answered(r) /\ req[r].kind = "split"
        /\ req[r].arr = <<ElemThree, ElemFour>>
        /\ Cardinality(EventsOf(r)) = 2
        /\ s3Lines = <<1, 2>>

\* the events of request r whose log call returned nil
Succeeded(r) == {e \in EventsOf(r) : ev[e].ret = "nil"}
\* an element of the array of request r re-encodes to more than
\* maxBytesPerRequest bytes
Oversize(r) ==
    \E i \in 1..Len(req[r].arr) :
        Len(EncodeToString(encodeStd, req[r].arr[i])) > maxBytesPerRequest

\* C18: when the loop of a split request over k elements has ended,
\* successCount + failCount = k; ExtractEvent returns 500 when no log call
\* succeeded, and 204 when one did and no element is oversize, whatever the
\* number of failed elements
C18_SplitCounts ==
    \A r \in Reqs :
        (Answered(r) /\ req[r].kind = "split") =>
            /\ req[r].succ + req[r].fail = Len(req[r].arr)
            /\ req[r].succ = Cardinality(Succeeded(r))
            /\ Succeeded(r) = {} => req[r].hs = StatusInternalServerError
            /\ (Succeeded(r) # {} /\ ~Oversize(r)) =>
                    req[r].hs = StatusNoContent

C18_Witness ==
    \E r \in Reqs :
        /\ Answered(r) /\ req[r].kind = "split" /\ ~Oversize(r)
        /\ req[r].succ = 1 /\ req[r].fail = 2
        /\ req[r].hs = StatusNoContent

\* C19: a split request with an oversize element is answered 413, and the
\* events that went into a sink are in it
C19_OversizeGives413 ==
    \A r \in Reqs :
        (Answered(r) /\ req[r].kind = "split" /\ Oversize(r)) =>
            /\ req[r].hs = StatusRequestEntityTooLarge
            /\ \A e \in EventsOf(r) : ev[e].s3 = "ok" => e \in S3Written

\* C19 (amended): a split request with an oversize element is answered 413
\* when a log call of the request succeeded and 500 when none did; every
\* element, the oversize ones included, is built into an event and logged,
\* and the events that went into a sink are in it
C19_OversizeGives413IfLogged ==
    \A r \in Reqs :
        (Answered(r) /\ req[r].kind = "split" /\ Oversize(r)) =>
            /\ Succeeded(r) # {} => req[r].hs = StatusRequestEntityTooLarge
            /\ Succeeded(r) = {} => req[r].hs = StatusInternalServerError
            /\ Cardinality(EventsOf(r)) = Len(req[r].arr)
            /\ \A e \in EventsOf(r) :
                /\ ev[e].logs = 1
                /\ ev[e].s3 = "ok" => e \in S3Written
                /\ ev[e].kin = "nil" => (e \in Added \/ e = kl.msg)

C19_Witness ==
    \E r \in Reqs :
        /\ Answered(r) /\ req[r].kind = "split"
        /\ req[r].arr = <<ElemTwo, ElemFour, ElemTwo>>
        /\ req[r].hs = StatusRequestEntityTooLarge
        /\ \A e \in EventsOf(r) : ev[e].s3 = "ok" /\ e \in S3Written

\* C20: an ingest request for which ExtractEvent returns 400 or 413 without
\* having built an event (its payload failed parsing or validation) is
\* answered with that status, and no event of it reached a sink
C20_ParseFailureStatus ==
    \A r \in Reqs :
        (Answered(r) /\ req[r].kind = "fail"
            /\ req[r].hs \in {StatusBadRequest, StatusRequestEntityTooLarge}) =>
            /\ req[r].status = req[r].hs
            /\ EventsOf(r) = {}

\* the paths of the ingest endpoint
IngestPath(p) ==
    p \in {PathRoot, PathTrack, PathTrackSlash} \/ HasPrefix(p, V1Prefix)

\* what a request with this method and path is answered, as the claim has it
C21_Routing ==
    \A r \in Reqs :
        req[r].pc # "idle" =>
            /\ EventsOf(r) # {} =>
                    req[r].method \in {"GET", "POST"} /\ IngestPath(req[r].path)
            /\ req[r].method \notin {"GET", "POST", "OPTIONS"} =>
                    req[r].status = StatusBadRequest /\ req[r].route = "other"
            /\ req[r].method = "OPTIONS" =>
                    req[r].status = StatusOK /\ req[r].route = "other"
            /\ (req[r].method \in {"GET", "POST"} /\ ~IngestPath(req[r].path)) =>
                    /\ req[r].route = "other"
                    /\ req[r].path = PathHealthcheck => req[r].status = StatusOK
                    /\ req[r].path \in {PathUnknown, PathV1NoSlash} =>
                            req[r].status = StatusNotFound
            /\ req[r].route = "other" => EventsOf(r) = {} /\ req[r].pc = "done"

\* C21: only a GET or POST request to /, /track, /track/ or /v1/... builds an
\* event or calls a sink: another method is answered 400, OPTIONS 200, an
\* unknown path 404, and a request that is not an ingest request leaves
\* eventCount, the events and both sinks as they are
C21_OnlyIngestBuilds ==
    /\ []C21_Routing
    /\ [][\A r \in Reqs :
            (req[r].pc = "idle" /\ req'[r].route = "other") =>
                /\ eventCount' = eventCount /\ ev' = ev
                /\ s3Lines' = s3Lines /\ kl' = kl /\ prod' = prod]_vars

C21_Witness ==
    \E r \in Reqs :
        /\ req[r].method = "GET" /\ req[r].path = PathV1NoSlash
        /\ req[r].status = StatusNotFound /\ eventCount = 0

\* the first six bytes of a GIF: 47 49 46 38 39 61
GifMagic == <<71, 73, 70, 56, 57, 97>>

\* C22: a successfully ingested request with img=1 is answered 200 with a
\* body of 43 bytes that begins with the GIF magic; one without img=1 is
\* answered 204 with no body
C22_Pixel43Bytes ==
    \A r \in Reqs :
        (Answered(r) /\ Is2xx(req[r].hs)) =>
            /\ req[r].img = "1" =>
                    /\ req[r].status = StatusOK
                    /\ Len(req[r].body) = 43
                    /\ SubSeq(req[r].body, 1, 6) = GifMagic
            /\ req[r].img = "" =>
                    req[r].status = StatusNoContent /\ req[r].body = <<>>

\* C22 (amended): a successfully ingested request with img=1 is answered 200
\* with the transparent GIF of 42 bytes, which begins with the GIF magic,
\* unless writing it fails, and then the status is 500; one without img=1
\* is answered 204 with no body
C22_Pixel42Bytes ==
    \A r \in Reqs :
        (Answered(r) /\ Is2xx(req[r].hs)) =>
            /\ req[r].img = "1" =>
                    \/ /\ req[r].status = StatusOK
                       /\ Len(req[r].body) = 42
                       /\ SubSeq(req[r].body, 1, 6) = GifMagic
                       /\ req[r].body = transparentPixel
                    \/ req[r].status = StatusInternalServerError
            /\ req[r].img = "" =>
                    req[r].status = StatusNoContent /\ req[r].body = <<>>

C22_Witness ==
    \E r \in Reqs :
        /\ Answered(r) /\ req[r].img = "1" /\ req[r].kind = "single"
        /\ ev[req[r].e].ret = "nil"
        /\ req[r].status = StatusOK /\ Len(req[r].body) = 42

\* C23: a POST without a data field and with raw body b: when b begins
\* with data= bad_client is set and the payload is b without its first five
\* bytes, otherwise bad_client is not set and the payload is b; an empty
\* payload is answered 400 without an event, another payload is the data of
\* the event; the handler does not panic, whatever the length of b
C23_RawBody ==
    \A r \in Reqs :
        Answered(r) =>
            LET b == req[r].raw IN
            /\ req[r].kind # "panic"
            /\ HasPrefix(b, dataFlag) =>
                    /\ req[r].badClient
                    /\ req[r].data = SubSeq(b, 6, Len(b))
            /\ ~HasPrefix(b, dataFlag) =>
                    ~req[r].badClient /\ req[r].data = b
            /\ req[r].data = <<>> =>
                    /\ req[r].hs = StatusBadRequest
                    /\ req[r].status = StatusBadRequest
                    /\ EventsOf(r) = {}
            /\ req[r].kind = "single" =>
                    req[r].data # <<>> /\ ev[req[r].e].data = req[r].data

C23_Witness ==
    \E r \in Reqs :
        /\ Answered(r) /\ req[r].raw = dataFlag \o <<"x", "y">>
        /\ req[r].badClient /\ req[r].kind = "single"
        /\ ev[req[r].e].data = <<"x", "y">>

\* C24: the process exits with code 0 only after a clean drain: when the
\* final Flush of the stream sink, run during Close, left records unsent,
\* the exit code is not 0
C24_ExitCode ==
    (proc # "running" /\ prod.remaining # {}) => ExitCode(proc) # 0

\* the log calls of request r that passed the closed check and returned
Returned(r) == {e \in EventsOf(r) : ev[e].passed /\ ev[e].ret # "none"}

\* C25: in a log call that passes the closed check S3EventLogger.Log is
\* called first and KinesisEventLogger.Log second, each once, the second
\* also when the first returned an error; when the call returns both have
\* been called and two logger attempts have been recorded, one per sink
C25_FanOutOrder ==
    /\ \A e \in Events :
        /\ ev[e].s3Calls <= 1 /\ ev[e].kinCalls <= 1
        /\ ev[e].kinCalls = 1 => ev[e].s3Calls = 1
        /\ ev[e].s3Calls = 1 => ev[e].passed
        /\ (ev[e].passed /\ ev[e].ret # "none") =>
                ev[e].s3Calls = 1 /\ ev[e].kinCalls = 1
    /\ \A r \in Reqs :
        req[r].attempts = 2 * Cardinality(Returned(r))

C25_Witness ==
    \E e \in Events :
        /\ ev[e].passed /\ ev[e].s3 = "err" /\ ev[e].kinCalls = 1
        /\ ev[e].ret = "nil" /\ req[ev[e].req].attempts = 2

\* C26: kinesisLogger.Close calls producer.Stop only when the submission
\* goroutine has drained the channel, run its final Flush and exited
C26_StopAfterGoroutine ==
    [][(prod.running /\ ~prod'.running) => kl.gpc = "exited"]_vars

\* the goroutine has received the record of event e from kl.channel
Received(e) ==
    e \in Added \/ (e = kl.msg /\ kl.gpc \in {"add", "senderr"})

\* C27: a kinesisLogger.Log call whose marshalling succeeds returns nil
\* exactly when the goroutine received its record, which is passed to
\* producer.Add at most once and only after it was received; a call that
\* returned an error did not submit its record, and its error was raised by
\* the producer.Add of an earlier record
C27_ErrorFromEarlierAdd ==
    \A e \in Events :
        /\ ev[e].kin = "nil" <=> Received(e)
        /\ Count(prod.added, e) <= 1
        /\ ev[e].kin \in {"err", "halted"} =>
                /\ ~Received(e)
                /\ ev[e].errFrom \in prod.failed
                /\ ev[e].errFrom < e /\ ev[ev[e].errFrom].kin = "nil"

\* C27 (amended): as C27, but the error of a call that returned one is that
\* of an earlier record's producer.Add or, once the goroutine has left its
\* loop and closed kl.errors, the "Processing halted" error, which no
\* producer.Add raised
C27_ErrorFromAddOrHalted ==
    \A e \in Events :
        /\ ev[e].kin = "nil" <=> Received(e)
        /\ Count(prod.added, e) <= 1
        /\ ev[e].kin \in {"err", "halted"} => ~Received(e)
        /\ ev[e].kin = "err" =>
                /\ ev[e].errFrom \in prod.failed
                /\ ev[e].errFrom < e /\ ev[ev[e].errFrom].kin = "nil"
        /\ ev[e].kin = "halted" =>
                /\ ev[e].errFrom = 0
                /\ kl.errClosed /\ kl.chClosed

C27_Witness ==
    \E e, f, g \in Events :
        /\ ev[e].kin = "nil" /\ e \in prod.failed
        /\ ev[f].kin = "err" /\ ev[f].errFrom = e
        /\ ev[g].kin = "halted"

\* C28: s3Logger.Log returns an error exactly when its formatter fails; a
\* log call whose formatter succeeded returns nil, so a log call returns an
\* error only when the loggers are closed or the formatter failed, and a
\* request whose events were all formatted is answered 500 by
\* handleSpadeRequests only when a log call of it found the loggers closed
C28_FormatterOnly ==
    /\ \A e \in Events :
        /\ ev[e].s3 = "err" <=> ev[e].fmt = "err"
        /\ ev[e].s3 = "ok" <=> ev[e].fmt = "ok"
        /\ (ev[e].fmt = "ok" /\ ev[e].ret # "none") => ev[e].ret = "nil"
        /\ (ev[e].ret \notin {"none", "nil"} /\ ev[e].fmt # "err") =>
                ev[e].ret = "closed" /\ elClosed
    /\ \A r \in Reqs :
        (/\ Answered(r) /\ req[r].hs = StatusInternalServerError
         /\ \A e \in EventsOf(r) : ev[e].fmt # "err") =>
            /\ elClosed
            /\ \E e \in EventsOf(r) : ev[e].ret = "closed"

C28_Witness ==
    \E e \in Events :
        /\ ev[e].fmt = "ok" /\ ev[e].kin = "err" /\ ev[e].ret = "nil"
        /\ ~elClosed
        /\ Answered(ev[e].req)
        /\ req[ev[e].req].hs = StatusNoContent

====
